---- MODULE Spec2Model ----
(***************************************************************************)
(* A model of go-wtr: the OFCOM Wireless Telegraphy Register csv package.  *)
(*                                                                         *)
(* Three revisions of the package are in the repository; the variable rev  *)
(* says which one a behaviour runs:                                        *)
(*   "wtr1"   package wtr, earliest    (src/unnamed/part_000)              *)
(*   "wtr2"   package wtr, second      (src/unnamed/part_001)              *)
(*   "wtrcsv" package wtrcsv, current  (src/wtrcsv.go)                     *)
(*                                                                         *)
(* A Go string is a sequence of one-character strings, "" is << >>.        *)
(* A Go map is a function whose DOMAIN is its key set.                     *)
(* A *Row is a row number: an index into rowsOf, the records the load      *)
(* allocated.  A []*Row is [arr, len]: a backing array (an index into      *)
(* arrays) and a length; every slice of the program starts at element 0    *)
(* of its array.  A *Collection is an index into colls.                    *)
(*                                                                         *)
(* Of the 46 verbatim-copied text columns the model keeps the six the      *)
(* filters and the normalizations read ("Licence Number" stands for the    *)
(* other forty, which newRow and toMap treat exactly alike).               *)
(*                                                                         *)
(* Four specifications: Spec (calls on Collections, one after another),    *)
(* LoadSpec (the record mapping of load and write), CompanySpec (filtering *)
(* by company) and ConcSpec (calls in goroutines, step by step).  The csv  *)
(* text format is encoding/csv's; the model starts from the header and     *)
(* the records the csv reader delivers and ends at those the csv writer    *)
(* receives.                                                               *)
(***************************************************************************)
EXTENDS Integers, Sequences, FiniteSets, TLC

VARIABLES
  rev,         \* the revision of the package that runs
  status,      \* "init", "loaded", or "fatal" after log.Fatal
  input,       \* what the csv reader delivered: the header, the records
  rowsOf,      \* the Row objects of the load, by row number
  arrays,      \* the backing arrays of the []*Row slices
  colls,       \* the Collection objects: [Header, Rows]
  origin,      \* how each Collection came to be
  out,         \* the records the csv writer received
  calls,       \* how many calls the caller has made on the Collections
  last,        \* the last call: operation, arguments, result, state before
  running      \* the calls that goroutines are in the middle of

vars == <<rev, status, input, rowsOf, arrays, colls, origin, out, calls, last,
          running>>

(***************************************************************************)
(* Bounds of the model.                                                    *)
(***************************************************************************)
MaxRows == 2
MaxCalls == 2
MaxGoroutines == 2

Revisions == {"wtr1", "wtr2", "wtrcsv"}

(***************************************************************************)
(* Strings.                                                                *)
(***************************************************************************)
Range(s) == {s[i] : i \in DOMAIN s}

Digits == {"0", "1", "2", "3", "4", "5", "6", "7", "8", "9"}

UpperLetters ==
  {"A", "B", "C", "D", "E", "F", "G", "H", "I", "J", "K", "L", "M",
   "N", "O", "P", "Q", "R", "S", "T", "U", "V", "W", "X", "Y", "Z"}

DigitVal(c) ==
  CASE c = "0" -> 0 [] c = "1" -> 1 [] c = "2" -> 2 [] c = "3" -> 3
    [] c = "4" -> 4 [] c = "5" -> 5 [] c = "6" -> 6 [] c = "7" -> 7
    [] c = "8" -> 8 [] c = "9" -> 9

DigitChar(d) ==
  CASE d = 0 -> "0" [] d = 1 -> "1" [] d = 2 -> "2" [] d = 3 -> "3"
    [] d = 4 -> "4" [] d = 5 -> "5" [] d = 6 -> "6" [] d = 7 -> "7"
    [] d = 8 -> "8" [] d = 9 -> "9"

AllDigits(s) == \A i \in DOMAIN s : s[i] \in Digits

RECURSIVE DecimalValue(_)
DecimalValue(s) ==
  IF s = << >> THEN 0
  ELSE 10 * DecimalValue(SubSeq(s, 1, Len(s) - 1)) + DigitVal(s[Len(s)])

RECURSIVE DecimalString(_)
DecimalString(n) ==
  IF n < 10 THEN <<DigitChar(n)>>
  ELSE DecimalString(n \div 10) \o <<DigitChar(n % 10)>>

\* unicode.IsSpace, for the ASCII characters of the model
IsSpace(c) == c \in {" ", "\t", "\n", "\r"}

\* strings.TrimSpace
RECURSIVE TrimSpace(_)
TrimSpace(s) ==
  IF s = << >> THEN s
  ELSE IF IsSpace(s[1]) THEN TrimSpace(Tail(s))
  ELSE IF IsSpace(s[Len(s)]) THEN TrimSpace(SubSeq(s, 1, Len(s) - 1))
  ELSE s

\* a slip: strings.TrimSpace in the place of Fields and Join
JoinFieldsOuter(s) == TrimSpace(s)

\* a slip: only the first white space character is removed
JoinFieldsFirst(s) ==
  IF \A i \in DOMAIN s : ~IsSpace(s[i]) THEN s
  ELSE LET i == CHOOSE k \in DOMAIN s :
                  IsSpace(s[k]) /\ \A j \in 1..(k - 1) : ~IsSpace(s[j])
       IN SubSeq(s, 1, i - 1) \o SubSeq(s, i + 1, Len(s))

\* strings.Join(strings.Fields(s), ""): the characters of s that are not space
JoinFields(s) == SelectSeq(s, LAMBDA c : ~IsSpace(c))

\* does sub occur in s at position i (1-based)
OccursAt(s, sub, i) ==
  /\ i >= 1
  /\ i + Len(sub) - 1 <= Len(s)
  /\ SubSeq(s, i, i + Len(sub) - 1) = sub

\* strings.Contains
Contains(s, sub) == \E i \in 1..(Len(s) + 1) : OccursAt(s, sub, i)

\* strings.Replace(s, old, new, 1): the first occurrence, if there is one
ReplaceFirst(s, old, new) ==
  IF ~Contains(s, old) THEN s
  ELSE LET i == CHOOSE k \in 1..(Len(s) + 1) :
                  /\ OccursAt(s, old, k)
                  /\ \A j \in 1..(k - 1) : ~OccursAt(s, old, j)
       IN SubSeq(s, 1, i - 1) \o new \o SubSeq(s, i + Len(old), Len(s))

\* the characters of the model in the order of their bytes
Bytes ==
  <<"\t", "\n", "\r", " ", "+", "-", ".",
    "0", "1", "2", "3", "4", "5", "6", "7", "8", "9",
    "A", "B", "C", "D", "E", "F", "G", "H", "I", "J", "K", "L", "M",
    "N", "O", "P", "Q", "R", "S", "T", "U", "V", "W", "X", "Y", "Z",
    "a", "b", "c", "d", "e", "f", "g", "h", "i", "j", "k", "l", "m",
    "n", "o", "p", "q", "r", "s", "t", "u", "v", "w", "x", "y", "z">>

Byte(c) == CHOOSE i \in DOMAIN Bytes : Bytes[i] = c

\* a < b of two Go strings: byte-wise lexicographic
Less(a, b) ==
  \E k \in 1..Len(b) :
     /\ k <= Len(a) + 1
     /\ SubSeq(a, 1, k - 1) = SubSeq(b, 1, k - 1)
     /\ (k = Len(a) + 1 \/ Byte(a[k]) < Byte(b[k]))

\* sort.Strings of the keys of a map
RECURSIVE SortStrings(_)
SortStrings(set) ==
  IF set = {} THEN << >>
  ELSE LET least == CHOOSE x \in set : \A y \in set \ {x} : Less(x, y)
       IN <<least>> \o SortStrings(set \ {least})

\* a slip: the pattern without its final $
creNGRUnanchored(s) ==
  \E i \in 1..Len(s), a \in {0, 1}, b \in {0, 1} :
     /\ i + 11 + a + b <= Len(s)
     /\ s[i] \in UpperLetters /\ s[i + 1] \in UpperLetters
     /\ a = 1 => s[i + 2] = " "
     /\ AllDigits(SubSeq(s, i + 2 + a, i + 6 + a))
     /\ b = 1 => s[i + 7 + a] = " "
     /\ AllDigits(SubSeq(s, i + 7 + a + b, i + 11 + a + b))

\* creNGR.MatchString(s) for "[A-Z]{2} ?[0-9]{5} ?[0-9]{5}$": a match may
\* start anywhere and has to end where s ends; a and b are the lengths of
\* the two optional spaces
creNGR(s) ==
  \E i \in 1..Len(s), a \in {0, 1}, b \in {0, 1} :
     /\ i + 11 + a + b = Len(s)
     /\ s[i] \in UpperLetters /\ s[i + 1] \in UpperLetters
     /\ a = 1 => s[i + 2] = " "
     /\ AllDigits(SubSeq(s, i + 2 + a, i + 6 + a))
     /\ b = 1 => s[i + 7 + a] = " "
     /\ AllDigits(SubSeq(s, i + 7 + a + b, i + 11 + a + b))

(***************************************************************************)
(* strconv.  Atoi and ParseFloat return [ok, ...]; ok = FALSE is err # nil *)
(* The strings of the model are far shorter than the 18 digits at which    *)
(* an int overflows, and carry no exponent, "inf", "nan", hex digits or    *)
(* underscores, and at most six decimals.                                  *)
(* A float64 is [neg, micro]: a sign and the magnitude in millionths.      *)
(***************************************************************************)
Atoi(s) ==
  LET signed == s # << >> /\ s[1] \in {"+", "-"}
      body == IF signed THEN Tail(s) ELSE s
  IN IF body = << >> \/ ~AllDigits(body)
     THEN [ok |-> FALSE, val |-> 0]
     ELSE [ok |-> TRUE,
           val |-> IF signed /\ s[1] = "-" THEN 0 - DecimalValue(body)
                   ELSE DecimalValue(body)]

Itoa(n) == IF n < 0 THEN <<"-">> \o DecimalString(0 - n) ELSE DecimalString(n)

FloatZero == [neg |-> FALSE, micro |-> 0]

PadMicro(frac) ==
  LET six == SubSeq(frac \o <<"0", "0", "0", "0", "0", "0">>, 1, 6)
  IN DecimalValue(six)

ParseFloat(s) ==
  LET signed == s # << >> /\ s[1] \in {"+", "-"}
      body == IF signed THEN Tail(s) ELSE s
      dots == {i \in DOMAIN body : body[i] = "."}
      dot == IF dots = {} THEN Len(body) + 1 ELSE CHOOSE i \in dots : TRUE
      whole == SubSeq(body, 1, dot - 1)
      frac == SubSeq(body, dot + 1, Len(body))
  IN IF \/ Cardinality(dots) > 1
        \/ ~AllDigits(whole)
        \/ ~AllDigits(frac)
        \/ Len(whole) + Len(frac) = 0
     THEN [ok |-> FALSE, val |-> FloatZero]
     ELSE [ok |-> TRUE,
           val |-> [neg |-> signed /\ s[1] = "-",
                    micro |-> DecimalValue(whole) * 1000000 + PadMicro(frac)]]

\* fmt.Sprintf("%f", f)
SprintfF(f) ==
  LET whole == DecimalString(f.micro \div 1000000)
      frac == DecimalString(1000000 + (f.micro % 1000000))
  IN (IF f.neg THEN <<"-">> ELSE << >>) \o whole \o <<".">> \o Tail(frac)

(***************************************************************************)
(* The record type and its header labels.                                  *)
(***************************************************************************)
HeadingOsEasting(r) == IF r = "wtrcsv" THEN "OS Easting" ELSE "OSGB36 E"

HeadingOsNorthing(r) == IF r = "wtrcsv" THEN "OS Northing" ELSE "OSGB36 N"

HeadingWgs84Longitude(r) == IF r = "wtr1" THEN "WGS84 E" ELSE "WGS84 Longitude"

HeadingWgs84Latitude(r) == IF r = "wtr1" THEN "WGS84 N" ELSE "WGS84 Latitude"

ExtensionLabels(r) ==
  {HeadingOsEasting(r), HeadingOsNorthing(r),
   HeadingWgs84Longitude(r), HeadingWgs84Latitude(r)}

CoreLabels ==
  {"Licence Number", "NGR", "Licencee Company", "Product Code",
   "Product Description", "Product Description 31"}

\* columns[label] of a Go map: the zero value "" for a missing key
Get(columns, label) ==
  IF label \in DOMAIN columns THEN columns[label] ELSE << >>

BtFullName ==
  <<"B", "R", "I", "T", "I", "S", "H", " ", "T", "E", "L", "E", "C", "O",
    "M", "M", "U", "N", "I", "C", "A", "T", "I", "O", "N", "S", " ", "P",
    "U", "B", "L", "I", "C", " ", "L", "I", "M", "I", "T", "E", "D", " ",
    "C", "O", "M", "P", "A", "N", "Y">>

MbnlFullName ==
  <<"M", "O", "B", "I", "L", "E", " ", "B", "R", "O", "A", "D", "B", "A",
    "N", "D", " ", "N", "E", "T", "W", "O", "R", "K", " ", "L", "I", "M",
    "I", "T", "E", "D">>

\* the pairs of newLicenceRow, in their order
pairs ==
  << [old |-> <<"P", "u", "b", "l", "i", "c", " ", "L", "i", "m", "i", "t",
                "e", "d", " ", "C", "o", "m", "p", "a", "n", "y">>,
      new |-> <<"P", "L", "C">>],
     [old |-> <<"P", "U", "B", "L", "I", "C", " ", "L", "I", "M", "I", "T",
                "E", "D", " ", "C", "O", "M", "P", "A", "N", "Y">>,
      new |-> <<"P", "L", "C">>],
     [old |-> <<"L", "i", "m", "i", "t", "e", "d">>,
      new |-> <<"L", "t", "d">>],
     [old |-> <<"L", "I", "M", "I", "T", "E", "D">>,
      new |-> <<"L", "T", "D">>] >>

RECURSIVE ApplyPairs(_, _)
ApplyPairs(name, k) ==
  IF k > Len(pairs) THEN name
  ELSE ApplyPairs(ReplaceFirst(name, pairs[k].old, pairs[k].new), k + 1)

\* a slip: the two full names are not looked for
TweakCompanyPairsOnly(licenseeCompany) == ApplyPairs(licenseeCompany, 1)

\* the company name newLicenceRow stores (earliest revision)
TweakCompany(licenseeCompany) ==
  IF licenseeCompany = BtFullName THEN <<"B", "T", " ", "P", "L", "C">>
  ELSE IF licenseeCompany = MbnlFullName THEN <<"M", "B", "N", "L">>
  ELSE ApplyPairs(licenseeCompany, 1)

\* regexp `([0-9]{6})[\- ]+(.*)$`: where a match can start
SplitStarts(s) ==
  {i \in 1..Len(s) :
     /\ i + 6 <= Len(s)
     /\ AllDigits(SubSeq(s, i, i + 5))
     /\ s[i + 6] \in {"-", " "}
     /\ \A j \in (i + 7)..Len(s) : s[j] # "\n"}

RECURSIVE SkipSeparators(_, _)
SkipSeparators(s, i) ==
  IF i <= Len(s) /\ s[i] \in {"-", " "} THEN SkipSeparators(s, i + 1) ELSE i

\* cre.FindStringSubmatch(productCode): << >> for no match, else
\* <<whole match, group 1, group 2>> of the leftmost match
FindStringSubmatch(s) ==
  IF SplitStarts(s) = {} THEN << >>
  ELSE LET i == CHOOSE k \in SplitStarts(s) : \A j \in SplitStarts(s) : k <= j
           rest == SkipSeparators(s, i + 6)
       IN <<SubSeq(s, i, Len(s)), SubSeq(s, i, i + 5), SubSeq(s, rest, Len(s))>>

\* the "Product Code & Description" block of newLicenceRow
SplitProduct(columns) ==
  LET productCode == TrimSpace(Get(columns, "Product Code"))
      productDescription == TrimSpace(Get(columns, "Product Description"))
      mo == FindStringSubmatch(productCode)
  IN IF Len(productCode) > 6 /\ Len(productDescription) = 0 /\ Len(mo) > 2
     THEN [code |-> mo[2], description |-> mo[3]]
     ELSE [code |-> productCode, description |-> productDescription]

\* a slip: an empty string is not converted and the field keeps its zero
ConversionFailsUnlessEmpty(r, columns) ==
  \/ /\ Get(columns, HeadingOsEasting(r)) # << >>
     /\ ~Atoi(columns[HeadingOsEasting(r)]).ok
  \/ /\ Get(columns, HeadingOsNorthing(r)) # << >>
     /\ ~Atoi(columns[HeadingOsNorthing(r)]).ok
  \/ /\ Get(columns, HeadingWgs84Longitude(r)) # << >>
     /\ ~ParseFloat(columns[HeadingWgs84Longitude(r)]).ok
  \/ /\ Get(columns, HeadingWgs84Latitude(r)) # << >>
     /\ ~ParseFloat(columns[HeadingWgs84Latitude(r)]).ok

\* which of the four conversions of newRow end in log.Fatal
ConversionFails(r, columns) ==
  \/ /\ HeadingOsEasting(r) \in DOMAIN columns
     /\ ~Atoi(columns[HeadingOsEasting(r)]).ok
  \/ /\ HeadingOsNorthing(r) \in DOMAIN columns
     /\ ~Atoi(columns[HeadingOsNorthing(r)]).ok
  \/ /\ HeadingWgs84Longitude(r) \in DOMAIN columns
     /\ ~ParseFloat(columns[HeadingWgs84Longitude(r)]).ok
  \/ /\ HeadingWgs84Latitude(r) \in DOMAIN columns
     /\ ~ParseFloat(columns[HeadingWgs84Latitude(r)]).ok

\* newRow / newLicenceRow: the Row of one map of columns, when no conversion
\* fails.  The earliest revision has no ...AsString fields: they stay "".
newRow(r, columns) ==
  LET E == HeadingOsEasting(r)
      N == HeadingOsNorthing(r)
      Lo == HeadingWgs84Longitude(r)
      La == HeadingWgs84Latitude(r)
      product == SplitProduct(columns)
  IN [LicenceNumber |-> Get(columns, "Licence Number"),
      NGR |-> IF r = "wtr1" THEN JoinFields(Get(columns, "NGR"))
              ELSE Get(columns, "NGR"),
      LicenseeCompany |->
        IF r = "wtr1" THEN TweakCompany(Get(columns, "Licencee Company"))
        ELSE Get(columns, "Licencee Company"),
      ProductCode |-> IF r = "wtr1" THEN product.code
                      ELSE Get(columns, "Product Code"),
      ProductDescription |-> IF r = "wtr1" THEN product.description
                             ELSE Get(columns, "Product Description"),
      ProductDescription31 |-> Get(columns, "Product Description 31"),
      Wgs84LongitudeAsString |->
        IF r # "wtr1" /\ Lo \in DOMAIN columns THEN columns[Lo] ELSE << >>,
      Wgs84LatitudeAsString |->
        IF r # "wtr1" /\ La \in DOMAIN columns THEN columns[La] ELSE << >>,
      Wgs84Longitude |->
        IF Lo \in DOMAIN columns THEN ParseFloat(columns[Lo]).val ELSE FloatZero,
      Wgs84Latitude |->
        IF La \in DOMAIN columns THEN ParseFloat(columns[La]).val ELSE FloatZero,
      OsEasting |-> IF E \in DOMAIN columns THEN Atoi(columns[E]).val ELSE 0,
      OsNorthing |-> IF N \in DOMAIN columns THEN Atoi(columns[N]).val ELSE 0]

\* a slip: every revision formats the two floats anew with "%f"
toMapFormatsFloats(r, row) ==
  [label \in CoreLabels \cup ExtensionLabels(r) |->
     CASE label = "Licence Number" -> row.LicenceNumber
       [] label = "NGR" -> row.NGR
       [] label = "Licencee Company" -> row.LicenseeCompany
       [] label = "Product Code" -> row.ProductCode
       [] label = "Product Description" -> row.ProductDescription
       [] label = "Product Description 31" -> row.ProductDescription31
       [] label = HeadingOsEasting(r) -> Itoa(row.OsEasting)
       [] label = HeadingOsNorthing(r) -> Itoa(row.OsNorthing)
       [] label = HeadingWgs84Longitude(r) -> SprintfF(row.Wgs84Longitude)
       [] label = HeadingWgs84Latitude(r) -> SprintfF(row.Wgs84Latitude)]

\* Row.toMap / LicenceRow.toMap
toMap(r, row) ==
  [label \in CoreLabels \cup ExtensionLabels(r) |->
     CASE label = "Licence Number" -> row.LicenceNumber
       [] label = "NGR" -> row.NGR
       [] label = "Licencee Company" -> row.LicenseeCompany
       [] label = "Product Code" -> row.ProductCode
       [] label = "Product Description" -> row.ProductDescription
       [] label = "Product Description 31" -> row.ProductDescription31
       [] label = HeadingOsEasting(r) -> Itoa(row.OsEasting)
       [] label = HeadingOsNorthing(r) -> Itoa(row.OsNorthing)
       [] label = HeadingWgs84Longitude(r) ->
            IF r = "wtr1" THEN SprintfF(row.Wgs84Longitude)
            ELSE row.Wgs84LongitudeAsString
       [] label = HeadingWgs84Latitude(r) ->
            IF r = "wtr1" THEN SprintfF(row.Wgs84Latitude)
            ELSE row.Wgs84LatitudeAsString]

\* csv.Reader.Read with its default FieldsPerRecord of 0: the header sets the
\* number of fields, and a record of another number of fields is an error,
\* which CSVToMap answers with log.Fatalf
ReadFails(table) ==
  \E i \in DOMAIN table.records : Len(table.records[i]) # Len(table.header)

\* a slip: a column with an empty value gets no key in the dict
RowDictSkipsEmpty(hdr, record) ==
  [label \in {hdr[k] : k \in {j \in DOMAIN hdr : record[j] # << >>}} |->
     LET i == CHOOSE k \in DOMAIN hdr :
                /\ hdr[k] = label
                /\ \A j \in DOMAIN hdr : hdr[j] = label => j <= k
     IN record[i]]

\* a slip: the first column with a label wins
RowDictFirst(hdr, record) ==
  [label \in Range(hdr) |->
     LET i == CHOOSE k \in DOMAIN hdr :
                /\ hdr[k] = label
                /\ \A j \in DOMAIN hdr : hdr[j] = label => k <= j
     IN record[i]]

\* the dict CSVToMap builds for one record: a later column with the same
\* label overwrites an earlier one
RowDict(hdr, record) ==
  [label \in Range(hdr) |->
     LET i == CHOOSE k \in DOMAIN hdr :
                /\ hdr[k] = label
                /\ \A j \in DOMAIN hdr : hdr[j] = label => j <= k
     IN record[i]]

\* CSVToMap: the header and one dict for each record after it
CSVToMap(table) ==
  [header |-> table.header,
   rows |-> [i \in DOMAIN table.records |-> RowDict(table.header, table.records[i])]]

(***************************************************************************)
(* The FilterFn values of the model: the package's own FilterCompanies     *)
(* closures, and caller-written functions that accept a set of rows.       *)
(***************************************************************************)
CompanyA == <<"A", " ", "L", "t", "d">>

CompanyB == <<"B">>

FilterCompanies(companies) == [kind |-> "FilterCompanies", lookup |-> Range(companies)]

Accepting(rows) == [kind |-> "func", accepts |-> rows]

\* the code of the point to point fixed links
P2PCode == <<"3", "0", "1", "0", "1", "0">>

\* FilterNumericalProductCodes(numericalProductCodes...), second and current
\* revision
FilterNumericalProductCodes(numericalProductCodes) ==
  [kind |-> "FilterNumericalProductCodes", lookup |-> Range(numericalProductCodes)]

\* FilterProductCodes(productCodes...), earliest revision
FilterProductCodes(productCodes) ==
  [kind |-> "FilterProductCodes", lookup |-> Range(productCodes)]

\* a slip: the product code alone, in every revision
FilterPointToPointCodeOnly(r, row) ==
  IF r = "wtr1" THEN row.ProductCode = P2PCode
  ELSE row.ProductDescription31 = P2PCode

\* FilterPointToPoint(row)
FilterPointToPoint(r, row) ==
  IF r = "wtr1" THEN row.ProductCode = P2PCode
  ELSE row.ProductDescription31 = P2PCode /\ creNGR(row.NGR)

\* FilterValidNGR(row), second and current revision
FilterValidNGR(row) == creNGR(row.NGR)

\* the two package functions as FilterFn values
PointToPointFn == [kind |-> "FilterPointToPoint"]

ValidNGRFn == [kind |-> "FilterValidNGR"]

FilterFns == {FilterCompanies(<<CompanyA>>), Accepting({2, 3})}

\* the argument lists of Filter and FilterInPlace: none, one, or two
\* different FilterFns in either order
FuncLists ==
  {<< >>} \cup {<<f>> : f \in FilterFns}
    \cup {q \in {<<f, g>> : f \in FilterFns, g \in FilterFns} : q[1] # q[2]}

\* filterFunc(row)
Call(filterFunc, row) ==
  CASE filterFunc.kind = "FilterCompanies" ->
         rowsOf[row].LicenseeCompany \in filterFunc.lookup
    [] filterFunc.kind = "func" -> row \in filterFunc.accepts
    [] filterFunc.kind = "FilterNumericalProductCodes" ->
         rowsOf[row].ProductDescription31 \in filterFunc.lookup
    [] filterFunc.kind = "FilterProductCodes" ->
         rowsOf[row].ProductCode \in filterFunc.lookup
    [] filterFunc.kind = "FilterPointToPoint" -> FilterPointToPoint(rev, rowsOf[row])
    [] filterFunc.kind = "FilterValidNGR" -> FilterValidNGR(rowsOf[row])

RECURSIVE SeqsUpTo(_, _)
SeqsUpTo(S, n) ==
  IF n = 0 THEN {<< >>}
  ELSE LET shorter == SeqsUpTo(S, n - 1)
       IN shorter \cup {Append(q, x) : q \in {t \in shorter : Len(t) = n - 1}, x \in S}

(***************************************************************************)
(* Collections.                                                            *)
(***************************************************************************)
\* the elements a []*Row shows
Elems(arrs, slice) == SubSeq(arrs[slice.arr], 1, slice.len)

\* what a holder of Collection c observes
View(c) == [Header |-> colls[c].Header, Rows |-> Elems(arrays, colls[c].Rows)]

Views == [c \in DOMAIN colls |-> View(c)]

\* a slip: only the first filterFunc is asked
AllPassFirstOnly(filterFuncs, row, k) ==
  IF k > Len(filterFuncs) THEN TRUE ELSE Call(filterFuncs[k], row)

\* a slip: ok starts false, so a row needs a filterFunc to accept it
RECURSIVE AllPassNeedsOne(_, _, _)
AllPassNeedsOne(filterFuncs, row, k) ==
  IF k > Len(filterFuncs) THEN k > 1
  ELSE IF ~Call(filterFuncs[k], row) THEN FALSE
  ELSE AllPassNeedsOne(filterFuncs, row, k + 1)

\* the inner loop of Filter and FilterInPlace: FALSE when some filterFunc,
\* tried in order from the k-th, returns false
RECURSIVE AllPass(_, _, _)
AllPass(filterFuncs, row, k) ==
  IF k > Len(filterFuncs) THEN TRUE
  ELSE IF ~Call(filterFuncs[k], row) THEN FALSE
  ELSE AllPass(filterFuncs, row, k + 1)

\* a slip: every revision leaves the row loop at a failing row
RECURSIVE FilterLoopBreaks(_, _, _, _, _)
FilterLoopBreaks(r, rows, filterFuncs, i, filtered) ==
  IF i > Len(rows) THEN filtered
  ELSE IF \A k \in DOMAIN filterFuncs : Call(filterFuncs[k], rows[i])
  THEN FilterLoopBreaks(r, rows, filterFuncs, i + 1, Append(filtered, rows[i]))
  ELSE filtered

\* a slip: the loop stops one row early
RECURSIVE FilterLoopSkipsLast(_, _, _, _, _)
FilterLoopSkipsLast(r, rows, filterFuncs, i, filtered) ==
  IF i >= Len(rows) THEN filtered
  ELSE IF \A k \in DOMAIN filterFuncs : Call(filterFuncs[k], rows[i])
  THEN FilterLoopSkipsLast(r, rows, filterFuncs, i + 1, Append(filtered, rows[i]))
  ELSE IF r = "wtr1" THEN filtered
  ELSE FilterLoopSkipsLast(r, rows, filterFuncs, i + 1, filtered)

\* a slip: every revision goes on to the next row after a failing row
RECURSIVE FilterLoopContinues(_, _, _, _, _)
FilterLoopContinues(r, rows, filterFuncs, i, filtered) ==
  IF i > Len(rows) THEN filtered
  ELSE IF \A k \in DOMAIN filterFuncs : Call(filterFuncs[k], rows[i])
  THEN FilterLoopContinues(r, rows, filterFuncs, i + 1, Append(filtered, rows[i]))
  ELSE FilterLoopContinues(r, rows, filterFuncs, i + 1, filtered)

\* the row loop of Filter from the i-th row on; filtered is filtered.Rows.
\* The earliest revision leaves the loop (break Loop) at a failing row.
RECURSIVE FilterLoop(_, _, _, _, _)
FilterLoop(r, rows, filterFuncs, i, filtered) ==
  IF i > Len(rows) THEN filtered
  ELSE IF AllPass(filterFuncs, rows[i], 1)
  THEN FilterLoop(r, rows, filterFuncs, i + 1, Append(filtered, rows[i]))
  ELSE IF r = "wtr1" THEN filtered
  ELSE FilterLoop(r, rows, filterFuncs, i + 1, filtered)

\* a slip: Filter appends to collection.Rows[:0], the receiver's own array
FilterSharing(r, arrs, collection, filterFuncs) ==
  LET rows == Elems(arrs, collection.Rows)
      kept == SelectSeq(rows, LAMBDA p : \A k \in DOMAIN filterFuncs : Call(filterFuncs[k], p))
      a == arrs[collection.Rows.arr]
  IN [arrays |-> [arrs EXCEPT ![collection.Rows.arr] =
                    [i \in DOMAIN a |-> IF i <= Len(kept) THEN kept[i] ELSE a[i]]],
      filtered |-> [Header |-> collection.Header,
                    Rows |-> [arr |-> collection.Rows.arr, len |-> Len(kept)]]]

\* Filter: the heap after the call and the Collection it returns; the rows
\* are appended to a new array
Filter(r, arrs, collection, filterFuncs) ==
  LET filtered == FilterLoop(r, Elems(arrs, collection.Rows), filterFuncs, 1, << >>)
  IN [arrays |-> Append(arrs, filtered),
      filtered |-> [Header |-> collection.Header,
                    Rows |-> [arr |-> Len(arrs) + 1, len |-> Len(filtered)]]]

\* the row loop of FilterInPlace from the i-th of n rows on: a is the
\* backing array, which the loop reads and appends to; w = len(filteredRows)
RECURSIVE FilterInPlaceLoop(_, _, _, _, _, _)
FilterInPlaceLoop(r, a, n, filterFuncs, i, w) ==
  IF i > n THEN [a |-> a, len |-> w]
  ELSE IF AllPass(filterFuncs, a[i], 1)
  THEN FilterInPlaceLoop(r, [a EXCEPT ![w + 1] = a[i]], n, filterFuncs, i + 1, w + 1)
  ELSE IF r = "wtr1" THEN [a |-> a, len |-> w]
  ELSE FilterInPlaceLoop(r, a, n, filterFuncs, i + 1, w)

\* a slip: collection.Rows = filteredRows is missing
FilterInPlaceKeepsLen(r, arrs, collection, filterFuncs) ==
  LET a == arrs[collection.Rows.arr]
      kept == SelectSeq(SubSeq(a, 1, collection.Rows.len),
                        LAMBDA p : \A k \in DOMAIN filterFuncs : Call(filterFuncs[k], p))
  IN [arrays |-> [arrs EXCEPT ![collection.Rows.arr] =
                    [i \in DOMAIN a |-> IF i <= Len(kept) THEN kept[i] ELSE a[i]]],
      Rows |-> collection.Rows]

\* FilterInPlace: the heap after the call and the receiver's new Rows
FilterInPlace(r, arrs, collection, filterFuncs) ==
  LET done == FilterInPlaceLoop(r, arrs[collection.Rows.arr], collection.Rows.len,
                                filterFuncs, 1, 0)
  IN [arrays |-> [arrs EXCEPT ![collection.Rows.arr] = done.a],
      Rows |-> [arr |-> collection.Rows.arr, len |-> done.len]]

\* the record WriteCSV writes for one row: csvRow[j] = rowAsMap[heading]
CsvRow(r, hdr, row) == [j \in DOMAIN hdr |-> Get(toMap(r, row), hdr[j])]

\* a slip: sort.Strings is missing; the keys in the order the rows gave them
RECURSIVE GetCompaniesUnsorted(_)
GetCompaniesUnsorted(rows) ==
  IF rows = << >> THEN << >>
  ELSE LET before == GetCompaniesUnsorted(SubSeq(rows, 1, Len(rows) - 1))
           company == rowsOf[rows[Len(rows)]].LicenseeCompany
       IN IF company \in Range(before) THEN before ELSE Append(before, company)

\* GetCompanies: the keys of set, sorted
GetCompanies(rows) ==
  SortStrings({rowsOf[rows[i]].LicenseeCompany : i \in DOMAIN rows})

\* a slip: the four extension columns are written after those of the header
WriteCSVWithExtensions(r, hdr, rows) ==
  LET all == hdr \o <<HeadingOsEasting(r), HeadingOsNorthing(r),
                      HeadingWgs84Longitude(r), HeadingWgs84Latitude(r)>>
  IN <<all>> \o [i \in DOMAIN rows |->
                  [j \in DOMAIN all |-> Get(toMap(r, rowsOf[rows[i]]), all[j])]]

\* a slip: only the columns toMap knows are written
WriteCSVKnownColumns(r, hdr, rows) ==
  LET known == SelectSeq(hdr, LAMBDA h : h \in CoreLabels \cup ExtensionLabels(r))
  IN <<known>> \o [i \in DOMAIN rows |->
                    [j \in DOMAIN known |-> toMap(r, rowsOf[rows[i]])[known[j]]]]

\* WriteCSV: the header, then one record for each row
WriteCSV(r, hdr, rows) ==
  <<hdr>> \o [i \in DOMAIN rows |-> CsvRow(r, hdr, rowsOf[rows[i]])]

(***************************************************************************)
(* The csv files of the model: one of two headers, and up to MaxRows       *)
(* records, each one of those written here for its header.  "Remarks" is   *)
(* a label no revision knows; "x" is no number.                            *)
(***************************************************************************)
Sheets(r) ==
  {[header |-> <<"Licence Number", "Licencee Company">>,
    records |-> {<<<<"1">>, CompanyA>>, <<<<"2">>, CompanyB>>}],
   [header |-> <<HeadingWgs84Longitude(r), "Remarks", "Licencee Company",
                 HeadingOsEasting(r)>>,
    records |-> {<<<<"1", ".", "5">>, <<"r">>, CompanyA, <<"7">>>>,
                 <<<<"-", "0", ".", "2", "5", "0">>, << >>, CompanyB, <<"0", "7">>>>,
                 <<<<"x">>, << >>, CompanyB, <<"7">>>>}]}

Tables(r) ==
  UNION {{[header |-> sheet.header, records |-> recs] :
            recs \in SeqsUpTo(sheet.records, MaxRows)} : sheet \in Sheets(r)}

(***************************************************************************)
(* The csv files for the record mapping: a sheet of the columns the        *)
(* normalizations and the predicates read, a sheet with the four extension *)
(* columns, some of whose records do not convert, and a sheet without any. *)
(***************************************************************************)
NormalizedSheet ==
  [header |-> <<"NGR", "Licencee Company", "Product Code", "Product Description",
                "Product Description 31">>,
   records |->
     {<<<<"A", "B", " ", "1", "2", "3", "4", "5", " ", "6", "7", "8", "9", "0">>, <<"B", "R", "I", "T", "I", "S", "H", " ", "T", "E", "L", "E", "C", "O", "M", "M", "U", "N", "I", "C", "A", "T", "I", "O", "N", "S", " ", "P", "U", "B", "L", "I", "C", " ", "L", "I", "M", "I", "T", "E", "D", " ", "C", "O", "M", "P", "A", "N", "Y">>, <<"3", "0", "1", "0", "1", "0">>, <<"F", "i", "x", "e", "d">>, <<"3", "0", "1", "0", "1", "0">>>>,
      <<<<"T", "Q", "1", "2", "3", "4", "5", "6", "7", "8", "9", "0", "x">>, <<"A", " ", "L", "i", "m", "i", "t", "e", "d">>, <<"3", "0", "1", "0", "1", "0", " ", "-", " ", "F", "i", "x", "e", "d", " ", "L", "i", "n", "k">>, << >>, <<"3", "0", "1", "0", "1", "0">>>>,
      <<<< >>, <<"M", "O", "B", "I", "L", "E", " ", "B", "R", "O", "A", "D", "B", "A", "N", "D", " ", "N", "E", "T", "W", "O", "R", "K", " ", "L", "I", "M", "I", "T", "E", "D">>, <<"1", "2", "3", "4", "5", "6", "7", "-", "\t", "x">>, << >>, <<"3", "0", "1", "0", "2", "0">>>>,
      <<<<"x", "T", "Q", "1", "2", "3", "4", "5", " ", "6", "7", "8", "9", "0">>, <<"B", " ", "P", "U", "B", "L", "I", "C", " ", "L", "I", "M", "I", "T", "E", "D", " ", "C", "O", "M", "P", "A", "N", "Y", " ", "L", "I", "M", "I", "T", "E", "D">>, <<"3", "0", "1", "0", "1", "0", " ", "a", "\n", "b">>, << >>, <<"3", "0", "1", "0", "1", "0">>>>,
      <<<<" ", "t", "q", "\t", "1", "2", "3", "4", "5", "6", "7", "8", "9", "0">>, <<"L", "i", "m", "i", "t", "e", "d", " ", "L", "i", "m", "i", "t", "e", "d">>, <<" ", "3", "0", "1", "0", "1", "0", "-", " ">>, <<" ">>, << >>>>,
      <<<<"T", "Q", " ", " ", "1", "2", "3", "4", "5", " ", "6", "7", "8", "9", "0">>, <<"A", " ", "P", "u", "b", "l", "i", "c", " ", "L", "i", "m", "i", "t", "e", "d", " ", "C", "o", "m", "p", "a", "n", "y">>, <<"3", "0", "1", "0", "1", "0", "1">>, << >>, <<"3", "0", "1", "0", "1", "0">>>>,
      <<<<"T", "Q", " ", "1", "2", "3", "4", "5", " ", "6", "7", "8", "9">>, <<"B">>, <<"3", "0", "1", "0", "1", "0", " ", "x">>, <<"d">>, <<"3", "0", "1", "0", "1", "0">>>>}]

ExtensionSheet(r) ==
  [header |-> <<HeadingOsEasting(r), HeadingOsNorthing(r),
                HeadingWgs84Longitude(r), HeadingWgs84Latitude(r),
                "Licencee Company">>,
   records |->
     {<<<<"0", "7">>, <<"+", "5">>, <<"1", ".", "5">>, <<"-", "0", ".", "2", "5", "0">>, <<"A", " ", "L", "t", "d">>>>,
      <<<<"7">>, <<"7">>, << >>, <<"1">>, <<"B">>>>,
      <<<< >>, <<"1">>, <<"1">>, <<"1">>, <<"B">>>>,
      <<<<"1">>, <<"x">>, <<"1">>, <<"1">>, <<"B">>>>,
      <<<<"1">>, <<"1">>, <<"1">>, <<"1", ".", "x">>, <<"B">>>>,
      <<<<"0">>, <<"0">>, <<"0">>, <<"0">>, <<"A", " ", "L", "t", "d">>>>}]

PlainSheet ==
  [header |-> <<"Licence Number", "Licencee Company">>,
   records |->
     {<<<<"1">>, <<"A", " ", "L", "t", "d">>>>,
      <<<<"2">>, <<"B">>>>,
      <<<<"3">>, <<"A", " ", "L", "T", "D">>>>}]

\* a header with one label in two columns, and a record that is one field
\* short
RepeatedLabelSheet ==
  [header |-> <<"Licence Number", "Licencee Company", "Licence Number">>,
   records |->
     {<<<<"1">>, <<"B">>, <<"2">>>>,
      <<<<"3">>, <<"A", " ", "L", "t", "d">>, <<"3">>>>,
      <<<<"4">>, <<"B">>>>}]

LoadSheets(r) == {NormalizedSheet, ExtensionSheet(r), PlainSheet, RepeatedLabelSheet}

LoadTables(r) ==
  UNION {{[header |-> sheet.header, records |-> recs] :
            recs \in SeqsUpTo(sheet.records, MaxRows)} : sheet \in LoadSheets(r)}

\* the argument lists of Filter in these runs
LoadFuncLists(r) ==
  IF r = "wtr1"
  THEN {<<PointToPointFn>>, <<FilterProductCodes(<<P2PCode>>)>>}
  ELSE {<<PointToPointFn>>, <<ValidNGRFn>>,
        <<FilterNumericalProductCodes(<<P2PCode>>), ValidNGRFn>>}

\* a goroutine that is in no call.  Of a call in progress: the operation
\* and its filterFuncs, the place in the code, the header and the slice the
\* call read from the Collection, the rows the range loop has delivered,
\* len(filteredRows) and the row waiting to be appended (FilterInPlace),
\* and what the call returned
NoGoroutine ==
  [op |-> "none", funcs |-> << >>, pc |-> "idle", header |-> << >>,
   rows |-> [arr |-> 0, len |-> 0], seen |-> << >>, filteredRows |-> 0,
   row |-> 0, ret |-> << >>]

NoCall ==
  [op |-> "none", recv |-> 0, funcs |-> << >>, ret |-> 0, pre |-> << >>,
   again |-> FALSE]

\* does a call repeat the filterFuncs of the call before it, on the
\* Collection that call returned
Repeats(c, filterFuncs) ==
  /\ last.op \in {"Filter", "FilterInPlace"}
  /\ last.ret = c
  /\ last.funcs = filterFuncs

Init ==
  /\ rev \in Revisions
  /\ status = "init"
  /\ input = [header |-> << >>, records |-> << >>]
  /\ rowsOf = << >>
  /\ arrays = << >>
  /\ colls = << >>
  /\ origin = << >>
  /\ out = << >>
  /\ calls = 0
  /\ last = NoCall
  /\ running = [g \in 1..MaxGoroutines |-> NoGoroutine]

\* ReadCSV: CSVToMap, then newRow for each record; a conversion that fails
\* ends the process
ReadCSV(t) ==
  /\ status = "init"
  /\ LET csv == CSVToMap(t)
         n == Len(csv.rows)
     IN /\ input' = t
        /\ last' = [NoCall EXCEPT !.op = "ReadCSV", !.ret = 1]
        /\ IF ReadFails(t) \/ \E i \in 1..n : ConversionFails(rev, csv.rows[i])
           THEN /\ status' = "fatal"
                /\ UNCHANGED <<rowsOf, arrays, colls, origin>>
           ELSE /\ status' = "loaded"
                /\ rowsOf' = [i \in 1..n |-> newRow(rev, csv.rows[i])]
                /\ arrays' = <<[i \in 1..n |-> i]>>
                /\ colls' = <<[Header |-> csv.header, Rows |-> [arr |-> 1, len |-> n]]>>
                /\ origin' = <<[how |-> "ReadCSV", from |-> 0]>>
  /\ UNCHANGED <<rev, out, calls, running>>

\* d := c.Filter(filterFuncs...)
DoFilter(c, filterFuncs) ==
  /\ status = "loaded"
  /\ calls < MaxCalls
  /\ calls' = calls + 1
  /\ LET res == Filter(rev, arrays, colls[c], filterFuncs)
     IN /\ arrays' = res.arrays
        /\ colls' = Append(colls, res.filtered)
        /\ origin' = Append(origin, [how |-> "Filter", from |-> c])
        /\ last' = [op |-> "Filter", recv |-> c, funcs |-> filterFuncs,
                    ret |-> Len(colls) + 1, pre |-> Views,
                    again |-> Repeats(c, filterFuncs)]
  /\ out' = << >>
  /\ UNCHANGED <<rev, status, input, rowsOf, running>>

\* c.FilterInPlace(filterFuncs...)
DoFilterInPlace(c, filterFuncs) ==
  /\ status = "loaded"
  /\ calls < MaxCalls
  /\ calls' = calls + 1
  /\ LET res == FilterInPlace(rev, arrays, colls[c], filterFuncs)
     IN /\ arrays' = res.arrays
        /\ colls' = [colls EXCEPT ![c].Rows = res.Rows]
        /\ last' = [op |-> "FilterInPlace", recv |-> c, funcs |-> filterFuncs,
                    ret |-> c, pre |-> Views,
                    again |-> Repeats(c, filterFuncs)]
  /\ out' = << >>
  /\ UNCHANGED <<rev, status, input, rowsOf, origin, running>>

\* a caller's &Collection{c.Header, c.Rows}: the fields are exported
ShareRows(c) ==
  /\ status = "loaded"
  /\ calls < MaxCalls
  /\ calls' = calls + 1
  /\ colls' = Append(colls, colls[c])
  /\ origin' = Append(origin, [how |-> "ShareRows", from |-> c])
  /\ last' = [NoCall EXCEPT !.op = "ShareRows", !.recv = c,
                            !.ret = Len(colls) + 1, !.pre = Views]
  /\ out' = << >>
  /\ UNCHANGED <<rev, status, input, rowsOf, arrays, running>>

\* c.WriteCSV(writer)
DoWriteCSV(c) ==
  /\ status = "loaded"
  /\ calls < MaxCalls
  /\ calls' = calls + 1
  /\ out' = WriteCSV(rev, colls[c].Header, Elems(arrays, colls[c].Rows))
  /\ last' = [NoCall EXCEPT !.op = "WriteCSV", !.recv = c, !.pre = Views]
  /\ UNCHANGED <<rev, status, input, rowsOf, arrays, colls, origin, running>>

\* c.GetCompanies()
DoGetCompanies(c) ==
  /\ status = "loaded"
  /\ calls < MaxCalls
  /\ calls' = calls + 1
  /\ last' = [NoCall EXCEPT !.op = "GetCompanies", !.recv = c, !.pre = Views,
                            !.ret = GetCompanies(Elems(arrays, colls[c].Rows))]
  /\ out' = << >>
  /\ UNCHANGED <<rev, status, input, rowsOf, arrays, colls, origin, running>>

\* a caller's c.Header = append(c.Header, label): the field is exported
AppendLabel(c, label) ==
  /\ status = "loaded"
  /\ calls < MaxCalls
  /\ calls' = calls + 1
  /\ label \notin Range(colls[c].Header)
  /\ colls' = [colls EXCEPT ![c].Header = Append(@, label)]
  /\ last' = [NoCall EXCEPT !.op = "AppendLabel", !.recv = c, !.ret = c,
                            !.pre = Views]
  /\ out' = << >>
  /\ UNCHANGED <<rev, status, input, rowsOf, arrays, origin, running>>

Next ==
  \/ \E t \in Tables(rev) : ReadCSV(t)
  \/ \E c \in DOMAIN colls, filterFuncs \in FuncLists : DoFilter(c, filterFuncs)
  \/ \E c \in DOMAIN colls, filterFuncs \in FuncLists : DoFilterInPlace(c, filterFuncs)
  \/ \E c \in DOMAIN colls : ShareRows(c)
  \/ \E c \in DOMAIN colls : DoWriteCSV(c)

Spec == Init /\ [][Next]_vars

\* the runs that load one of LoadTables and then read, filter and write
LoadNext ==
  \/ status = "init" /\ \E t \in LoadTables(rev) : ReadCSV(t)
  \/ \E c \in DOMAIN colls, filterFuncs \in LoadFuncLists(rev) : DoFilter(c, filterFuncs)
  \/ \E c \in DOMAIN colls : DoGetCompanies(c)
  \/ \E c \in DOMAIN colls, label \in ExtensionLabels(rev) : AppendLabel(c, label)
  \/ \E c \in DOMAIN colls : DoWriteCSV(c)

LoadSpec == Init /\ [][LoadNext]_vars

(***************************************************************************)
(* Filtering by company, as the package's test does it: Filter with        *)
(* FilterCompanies of one name, of another, and of both.                   *)
(***************************************************************************)
CompanyTables ==
  {[header |-> PlainSheet.header, records |-> recs] :
     recs \in SeqsUpTo(PlainSheet.records, MaxRows)}

CompanyFuncLists ==
  {<<FilterCompanies(<<CompanyA>>)>>, <<FilterCompanies(<<CompanyB>>)>>,
   <<FilterCompanies(<<CompanyA, CompanyB>>)>>}

CompanyNext ==
  \/ status = "init" /\ \E t \in CompanyTables : ReadCSV(t)
  \/ \E c \in DOMAIN colls : DoGetCompanies(c)
  \/ \E c \in DOMAIN colls, filterFuncs \in CompanyFuncLists : DoFilter(c, filterFuncs)

CompanySpec == Init /\ [][CompanyNext]_vars

(***************************************************************************)
(* Calls that run at the same time on the loaded Collection, each in a     *)
(* goroutine of its own and with no synchronisation between them.  A step  *)
(* is one read or one write of the Collection's fields or of an element of *)
(* its Rows; what a call does to its own locals goes with the read before  *)
(* it.  The reads race with FilterInPlace's writes: a read of a word       *)
(* delivers the value of some write to it that has happened, which is the  *)
(* value there now or the one the load put there.                          *)
(***************************************************************************)
ConcSheet ==
  [header |-> <<"Licence Number", "Licencee Company">>,
   records |->
     {<<<<"1">>, <<"A", " ", "L", "t", "d">>>>,
      <<<<"2">>, <<"B">>>>}]

ConcTables ==
  {[header |-> ConcSheet.header, records |-> recs] :
     recs \in SeqsUpTo(ConcSheet.records, MaxRows)}

ConcFuncLists == {<<Accepting({2, 3})>>, <<FilterCompanies(<<CompanyA>>)>>}

Readers == {"Filter", "GetCompanies", "WriteCSV"}

\* the calls a goroutine can make on the Collection
ConcCalls ==
  {[op |-> op, funcs |-> filterFuncs] :
     op \in {"Filter", "FilterInPlace"}, filterFuncs \in ConcFuncLists}
  \cup {[op |-> op, funcs |-> << >>] : op \in {"GetCompanies", "WriteCSV"}}

\* the row sequence the load gave the Collection
Loaded == [i \in 1..Len(rowsOf) |-> i]

\* a slip: collection.Rows[:1]
FirstPrefix(slice) == [arr |-> slice.arr, len |-> 1]

\* collection.Rows[:0]
EmptyPrefix(slice) == [arr |-> slice.arr, len |-> 0]

\* what a read of len(collection.Rows) can deliver
LenRead == {colls[1].Rows.len, Len(Loaded)}

\* what a read of element i of the Collection's array can deliver
RowRead(slice, i) == {arrays[slice.arr][i], Loaded[i]}

\* a slip: Filter appends to collection.Rows[:0], the receiver's own array
HeapAfterVisitSharing(arrs, call, row) ==
  IF call.op = "Filter" /\ AllPass(call.funcs, row, 1)
  THEN [arrs EXCEPT ![call.rows.arr]
                       [Len(FilterLoop("wtrcsv", call.seen, call.funcs, 1, << >>)) + 1]
                          = row]
  ELSE arrs

\* the heap after the loop body of Filter, GetCompanies or WriteCSV ran for
\* a row: Filter appends to a slice of its own, GetCompanies stores in a
\* map of its own and WriteCSV in a csvRow of its own, so the arrays of the
\* Collections are as before
HeapAfterVisit(arrs, call, row) == arrs

\* a slip: filteredRows is a slice of its own, the receiver's array is not
\* written
AppendToCopy(arrs, slice, n, row) == arrs

\* filteredRows = append(filteredRows, row) in FilterInPlace: filteredRows
\* shares the receiver's array and has room, so row is stored in place
AppendInPlace(arrs, slice, n, row) == [arrs EXCEPT ![slice.arr][n + 1] = row]

\* what a call returns for the rows its range loop delivered
Returned(r, call) ==
  CASE call.op = "Filter" ->
         [Header |-> call.header,
          Rows |-> FilterLoop(r, call.seen, call.funcs, 1, << >>)]
    [] call.op = "GetCompanies" -> GetCompanies(call.seen)
    [] call.op = "WriteCSV" -> WriteCSV(r, call.header, call.seen)

\* go collection.<op>(filterFuncs...): at most one FilterInPlace
Go(g, call) ==
  /\ status = "loaded"
  /\ running[g].pc = "idle"
  /\ \A h \in 1..(g - 1) : running[h].pc # "idle"
  /\ call.op = "FilterInPlace" =>
        \A h \in DOMAIN running : running[h].op # "FilterInPlace"
  /\ running' = [running EXCEPT ![g] =
                   [NoGoroutine EXCEPT !.op = call.op, !.funcs = call.funcs,
                                       !.pc = "range"]]
  /\ UNCHANGED <<rev, status, input, rowsOf, arrays, colls, origin, out, calls, last>>

\* the call reads collection.Header and collection.Rows: header :=
\* collection.Header, filteredRows := collection.Rows[:0], and the slice
\* that range collection.Rows evaluates once
RangeRows(g) ==
  /\ running[g].pc = "range"
  /\ \E n \in (IF running[g].op = "FilterInPlace" THEN {colls[1].Rows.len}
               ELSE LenRead) :
        running' = [running EXCEPT
                      ![g].pc = "loop",
                      ![g].header = colls[1].Header,
                      ![g].rows = [arr |-> colls[1].Rows.arr, len |-> n],
                      ![g].filteredRows = EmptyPrefix(colls[1].Rows).len]
  /\ UNCHANGED <<rev, status, input, rowsOf, arrays, colls, origin, out, calls, last>>

\* one turn of for _, row := range collection.Rows in Filter, GetCompanies
\* or WriteCSV: the read of the next element, and the loop body
VisitRow(g) ==
  /\ running[g].pc = "loop"
  /\ running[g].op \in Readers
  /\ Len(running[g].seen) < running[g].rows.len
  /\ \E row \in RowRead(running[g].rows, Len(running[g].seen) + 1) :
        /\ running' = [running EXCEPT ![g].seen = Append(@, row)]
        /\ arrays' = HeapAfterVisit(arrays, running[g], row)
  /\ UNCHANGED <<rev, status, input, rowsOf, colls, origin, out, calls, last>>

\* the range loop of Filter, GetCompanies or WriteCSV is over: return
Return(g) ==
  /\ running[g].pc = "loop"
  /\ running[g].op \in Readers
  /\ Len(running[g].seen) = running[g].rows.len
  /\ running' = [running EXCEPT ![g].pc = "done",
                                ![g].ret = Returned(rev, running[g])]
  /\ UNCHANGED <<rev, status, input, rowsOf, arrays, colls, origin, out, calls, last>>

\* FilterInPlace reads the next element and calls the filterFuncs on it
InPlaceRead(g) ==
  /\ running[g].pc = "loop"
  /\ running[g].op = "FilterInPlace"
  /\ Len(running[g].seen) < running[g].rows.len
  /\ LET row == arrays[running[g].rows.arr][Len(running[g].seen) + 1]
     IN running' = [running EXCEPT
                      ![g].seen = Append(@, row),
                      ![g].row = row,
                      ![g].pc = IF AllPass(running[g].funcs, row, 1)
                                THEN "append" ELSE "loop"]
  /\ UNCHANGED <<rev, status, input, rowsOf, arrays, colls, origin, out, calls, last>>

\* FilterInPlace: filteredRows = append(filteredRows, row)
InPlaceAppend(g) ==
  /\ running[g].pc = "append"
  /\ arrays' = AppendInPlace(arrays, running[g].rows, running[g].filteredRows,
                             running[g].row)
  /\ running' = [running EXCEPT ![g].filteredRows = @ + 1, ![g].pc = "loop"]
  /\ UNCHANGED <<rev, status, input, rowsOf, colls, origin, out, calls, last>>

\* FilterInPlace: collection.Rows = filteredRows; return collection
InPlaceAssign(g) ==
  /\ running[g].pc = "loop"
  /\ running[g].op = "FilterInPlace"
  /\ Len(running[g].seen) = running[g].rows.len
  /\ colls' = [colls EXCEPT ![1].Rows = [arr |-> running[g].rows.arr,
                                         len |-> running[g].filteredRows]]
  /\ running' = [running EXCEPT ![g].pc = "done"]
  /\ UNCHANGED <<rev, status, input, rowsOf, arrays, origin, out, calls, last>>

\* the runs of the current revision
ConcInit == Init /\ rev = "wtrcsv"

ConcNext ==
  \/ status = "init" /\ \E t \in ConcTables : ReadCSV(t)
  \/ \E g \in DOMAIN running, call \in ConcCalls : Go(g, call)
  \/ \E g \in DOMAIN running : RangeRows(g)
  \/ \E g \in DOMAIN running : VisitRow(g)
  \/ \E g \in DOMAIN running : Return(g)
  \/ \E g \in DOMAIN running : InPlaceRead(g)
  \/ \E g \in DOMAIN running : InPlaceAppend(g)
  \/ \E g \in DOMAIN running : InPlaceAssign(g)

ConcSpec == ConcInit /\ [][ConcNext]_vars

(***************************************************************************)
(* Properties.  Each is about the state right after a call: last names     *)
(* the call, last.pre is what every Collection showed before it.           *)
(***************************************************************************)
\* the receiver of the last call, as it was before the call
Receiver == last.pre[last.recv]

\* the rows every one of filterFuncs accepts, in order
Passing(rows, filterFuncs) ==
  SelectSeq(rows, LAMBDA p : \A k \in DOMAIN filterFuncs : Call(filterFuncs[k], p))

\* what the last call returned or filtered, as it is now
Result == Views[last.ret]

\* C1: in the current revision Filter returns the receiver's header and
\* exactly the rows every predicate accepts, in their order
C1_FilterKeepsExactlyPassingRows ==
  (last.op = "Filter" /\ rev = "wtrcsv") =>
     /\ Result.Header = Receiver.Header
     /\ Result.Rows = Passing(Receiver.Rows, last.funcs)

\* C1: a row was rejected and a later row was still kept
C1_Witness ==
  /\ last.op = "Filter"
  /\ rev = "wtrcsv"
  /\ \E i, j \in DOMAIN Receiver.Rows :
       /\ i < j
       /\ Passing(<<Receiver.Rows[i]>>, last.funcs) = << >>
       /\ Receiver.Rows[j] \in Range(Result.Rows)

\* C2: WriteCSV writes the loaded header, then for each row one record of
\* len(Header) values, the j-th being the row's value for the j-th label
C2_WriteFollowsHeader ==
  last.op = "WriteCSV" =>
     /\ Len(out) = 1 + Len(Receiver.Rows)
     /\ out[1] = input.header
     /\ \A i \in DOMAIN Receiver.Rows :
          /\ Len(out[i + 1]) = Len(input.header)
          /\ \A j \in DOMAIN input.header :
               out[i + 1][j] = Get(toMap(rev, rowsOf[Receiver.Rows[i]]), input.header[j])

\* C2: a file with an unknown column was written after a filter removed a row
C2_Witness ==
  /\ last.op = "WriteCSV"
  /\ "Remarks" \in Range(input.header)
  /\ Len(input.records) = 2
  /\ Len(out) = 2

\* the string the csv reader delivered for a row under a label
RawValue(row, label) == RowDict(input.header, input.records[row])[label]

\* C3: what WriteCSV writes under an extension label is the string read
C3_ExtensionWrittenVerbatim ==
  last.op = "WriteCSV" =>
     \A i \in DOMAIN Receiver.Rows : \A j \in DOMAIN input.header :
        input.header[j] \in ExtensionLabels(rev) =>
           out[i + 1][j] = RawValue(Receiver.Rows[i], input.header[j])

\* C4: FilterInPlace leaves in the receiver the rows Filter would have
\* returned, keeps the header and returns the receiver
C4_InPlaceEqualsFilter ==
  last.op = "FilterInPlace" =>
     /\ Result.Rows = FilterLoop(rev, Receiver.Rows, last.funcs, 1, << >>)
     /\ Result.Header = Receiver.Header
     /\ last.ret = last.recv

\* C4: FilterInPlace removed a row and kept one
C4_Witness ==
  /\ last.op = "FilterInPlace"
  /\ Result.Rows # << >>
  /\ Len(Result.Rows) < Len(Receiver.Rows)

\* C5: Filter leaves the receiver as it was and returns no more rows than
\* the receiver has
C5_FilterLeavesReceiver ==
  last.op = "Filter" =>
     /\ Views[last.recv] = Receiver
     /\ Len(Result.Rows) <= Len(Receiver.Rows)

\* C5: Filter returned fewer rows than the receiver has
C5_Witness ==
  /\ last.op = "Filter"
  /\ Len(Result.Rows) < Len(Receiver.Rows)

\* the Collections c.Filter returned
FilteredFrom(c) ==
  {d \in DOMAIN origin : origin[d].how = "Filter" /\ origin[d].from = c}

\* C6: FilterInPlace on c changes no Collection that c.Filter returned
C6_FilteredCopyUnaffected ==
  last.op = "FilterInPlace" =>
     \A d \in FilteredFrom(last.recv) : Views[d] = last.pre[d]

\* C6: c.FilterInPlace removed rows that a Collection from c.Filter holds
C6_Witness ==
  /\ last.op = "FilterInPlace"
  /\ Len(Result.Rows) < Len(Receiver.Rows)
  /\ \E d \in FilteredFrom(last.recv) : Len(Views[d].Rows) > Len(Result.Rows)

\* C7, as claimed: FilterInPlace changes what no other Collection shows
C7_NoOtherCollectionChanges ==
  last.op = "FilterInPlace" =>
     \A d \in DOMAIN last.pre : d # last.recv => Views[d] = last.pre[d]

\* the Collection whose rows d was built to hold: d itself, unless d was
\* made from another Collection's Rows value without a copy
RECURSIVE Owner(_)
Owner(d) == IF origin[d].how = "ShareRows" THEN Owner(origin[d].from) ELSE d

\* C7, amended: FilterInPlace on c changes what another Collection shows
\* only if that Collection was built on c's Rows value, or c on its
C7_OnlySharersChange ==
  last.op = "FilterInPlace" =>
     \A d \in DOMAIN last.pre :
        Owner(d) # Owner(last.recv) => Views[d] = last.pre[d]

\* C7: FilterInPlace removed rows while a Collection with rows of its own
\* held more
C7_Witness ==
  /\ last.op = "FilterInPlace"
  /\ Len(Result.Rows) < Len(Receiver.Rows)
  /\ \E d \in DOMAIN last.pre :
       /\ Owner(d) # Owner(last.recv)
       /\ Len(Views[d].Rows) > Len(Result.Rows)

\* C8: Filter(p1, p2) returns the rows of the receiver that are both in
\* Filter(p1) and in Filter(p2)
C8_FilterConjunction ==
  (last.op = "Filter" /\ Len(last.funcs) = 2) =>
     LET one == FilterLoop(rev, Receiver.Rows, <<last.funcs[1]>>, 1, << >>)
         two == FilterLoop(rev, Receiver.Rows, <<last.funcs[2]>>, 1, << >>)
     IN Result.Rows = SelectSeq(Receiver.Rows,
                                LAMBDA p : p \in Range(one) /\ p \in Range(two))

\* C8: two predicates that keep different rows, and a row both keep
C8_Witness ==
  /\ last.op = "Filter"
  /\ Len(last.funcs) = 2
  /\ Result.Rows # << >>
  /\ FilterLoop(rev, Receiver.Rows, <<last.funcs[1]>>, 1, << >>)
       # FilterLoop(rev, Receiver.Rows, <<last.funcs[2]>>, 1, << >>)

\* C9: with no predicates Filter and FilterInPlace keep every row
C9_NoPredicatesKeepAll ==
  (last.op \in {"Filter", "FilterInPlace"} /\ last.funcs = << >>) =>
     Result.Rows = Receiver.Rows

\* C9: a call without predicates on a Collection of two rows
C9_Witness ==
  /\ last.op \in {"Filter", "FilterInPlace"}
  /\ last.funcs = << >>
  /\ Len(Receiver.Rows) >= 2
  /\ rev = "wtr1"

\* C10: the same predicates applied again, to what the call before
\* returned, remove nothing
C10_FilterIdempotent ==
  last.again => Result.Rows = Receiver.Rows

\* C10: Filter repeated on its own result, after it had removed a row
C10_Witness ==
  /\ last.again
  /\ last.op = "Filter"
  /\ origin[last.recv].how = "Filter"
  /\ Result.Rows # << >>
  /\ Len(Result.Rows) < Len(Views[origin[last.recv].from].Rows)

\* C11: a header without extension labels gives Records whose extension
\* fields are zero and empty, and a written file without extension columns
C11_NoExtensionWithoutLabels ==
  (status = "loaded" /\ Range(input.header) \cap ExtensionLabels(rev) = {}) =>
     /\ \A i \in DOMAIN rowsOf :
          /\ rowsOf[i].OsEasting = 0
          /\ rowsOf[i].OsNorthing = 0
          /\ rowsOf[i].Wgs84Longitude = FloatZero
          /\ rowsOf[i].Wgs84Latitude = FloatZero
          /\ rowsOf[i].Wgs84LongitudeAsString = << >>
          /\ rowsOf[i].Wgs84LatitudeAsString = << >>
     /\ last.op = "WriteCSV" =>
          /\ Range(out[1]) \cap ExtensionLabels(rev) = {}
          /\ \A k \in DOMAIN out : Len(out[k]) = Len(input.header)

\* C11: a file of two records without extension labels was loaded and
\* written
C11_Witness ==
  /\ last.op = "WriteCSV"
  /\ Range(input.header) \cap ExtensionLabels(rev) = {}
  /\ Len(rowsOf) = 2
  /\ Len(out) = 3

\* C12: under an extension label that the loaded header did not have,
\* WriteCSV writes for every row a string form of the number zero
C12_AbsentExtensionWrittenAsZero ==
  last.op = "WriteCSV" =>
     \A j \in DOMAIN out[1] :
        out[1][j] \in ExtensionLabels(rev) \ Range(input.header) =>
           \A i \in 2..Len(out) :
              /\ out[i][j] # << >>
              /\ ParseFloat(out[i][j]) = [ok |-> TRUE, val |-> FloatZero]

\* is s no number of the kind the extension label holds
NotNumeric(label, s) ==
  IF label \in {HeadingOsEasting(rev), HeadingOsNorthing(rev)}
  THEN ~Atoi(s).ok
  ELSE ~ParseFloat(s).ok

\* C13: a value under an extension label of the header that is no number
\* of the label's kind ends the load: no Collection and no Record exist
C13_ParseFailureIsFatal ==
  (/\ status # "init"
   /\ \E i \in DOMAIN input.records, j \in DOMAIN input.header :
         /\ input.header[j] \in ExtensionLabels(rev)
         /\ NotNumeric(input.header[j], input.records[i][j])) =>
     /\ status = "fatal"
     /\ colls = << >>
     /\ rowsOf = << >>

\* C13: the load ended at the second record, whose float column is empty,
\* after a first record that converts
C13_Witness ==
  /\ status = "fatal"
  /\ Len(input.records) = 2
  /\ \A j \in DOMAIN input.header :
        input.header[j] \in ExtensionLabels(rev) =>
           ~NotNumeric(input.header[j], input.records[1][j])
  /\ \E j \in DOMAIN input.header :
        /\ input.header[j] = HeadingWgs84Longitude(rev)
        /\ input.records[2][j] = << >>

\* the value the csv reader delivered for record i under a label
Raw(i, label) == Get(RowDict(input.header, input.records[i]), label)

\* s without its white space characters
RECURSIVE WithoutSpace(_)
WithoutSpace(s) ==
  IF s = << >> THEN << >>
  ELSE IF s[1] \in {" ", "\t", "\n", "\r"} THEN WithoutSpace(Tail(s))
  ELSE <<s[1]>> \o WithoutSpace(Tail(s))

SixDigitStarts(code) ==
  {k \in 1..(Len(code) - 6) :
     /\ \A j \in k..(k + 5) : code[j] \in Digits
     /\ code[k + 6] \in {"-", " "}}

\* the text of code after the six digits at k and the separators after them
AfterSeparators(code, k) ==
  LET others == {j \in (k + 6)..Len(code) : code[j] \notin {"-", " "}}
  IN IF others = {} THEN << >>
     ELSE SubSeq(code, CHOOSE j \in others : \A m \in others : j <= m, Len(code))

\* C15: in the earliest revision a trimmed Product Code longer than six
\* characters, with no description, that has six digits and separators is
\* split into the six digits and the text after the separators; any other
\* code and description are stored trimmed
C15_ProductCodeSplit ==
  (status = "loaded" /\ rev = "wtr1") =>
     \A i \in DOMAIN rowsOf :
        LET code == TrimSpace(Raw(i, "Product Code"))
            desc == TrimSpace(Raw(i, "Product Description"))
        IN IF Len(code) > 6 /\ desc = << >> /\ SixDigitStarts(code) # {}
           THEN \E k \in SixDigitStarts(code) :
                   /\ rowsOf[i].ProductCode = SubSeq(code, k, k + 5)
                   /\ rowsOf[i].ProductDescription = AfterSeparators(code, k)
           ELSE /\ rowsOf[i].ProductCode = code
                /\ rowsOf[i].ProductDescription = desc

\* C15 without the codes that hold a line break
C15_ProductCodeSplitOnOneLine ==
  (status = "loaded" /\ rev = "wtr1"
     /\ \A i \in DOMAIN rowsOf : "\n" \notin Range(Raw(i, "Product Code"))) =>
     C15_ProductCodeSplit

\* s with its first old, if it has one, turned into new
Once(s, old, new) ==
  LET at == {k \in 1..Len(s) :
               k + Len(old) - 1 <= Len(s) /\ SubSeq(s, k, k + Len(old) - 1) = old}
  IN IF at = {} THEN s
     ELSE LET k == CHOOSE k \in at : \A j \in at : k <= j
          IN SubSeq(s, 1, k - 1) \o new \o SubSeq(s, k + Len(old), Len(s))

\* the four replacements, one after the other
Shortened(name) ==
  LET plc == <<"P", "L", "C">>
      a == Once(name, <<"P", "u", "b", "l", "i", "c", " ", "L", "i", "m", "i",
                        "t", "e", "d", " ", "C", "o", "m", "p", "a", "n", "y">>, plc)
      b == Once(a, <<"P", "U", "B", "L", "I", "C", " ", "L", "I", "M", "I",
                     "T", "E", "D", " ", "C", "O", "M", "P", "A", "N", "Y">>, plc)
      c == Once(b, <<"L", "i", "m", "i", "t", "e", "d">>, <<"L", "t", "d">>)
  IN Once(c, <<"L", "I", "M", "I", "T", "E", "D">>, <<"L", "T", "D">>)

\* C16: the earliest revision stores the two full names as "BT PLC" and
\* "MBNL", and any other name with the first of each of the four texts
\* shortened, which leaves a name without them as it is
C16_CompanyNames ==
  (status = "loaded" /\ rev = "wtr1") =>
     \A i \in DOMAIN rowsOf :
        LET name == Raw(i, "Licencee Company")
        IN rowsOf[i].LicenseeCompany =
             IF name = BtFullName THEN <<"B", "T", " ", "P", "L", "C">>
             ELSE IF name = MbnlFullName THEN <<"M", "B", "N", "L">>
             ELSE Shortened(name)

\* C16: the earliest revision loaded the full name of BT and a name with
\* "Limited" twice
C16_Witness ==
  /\ status = "loaded"
  /\ rev = "wtr1"
  /\ \E i \in DOMAIN rowsOf : Raw(i, "Licencee Company") = BtFullName
  /\ \E i \in DOMAIN rowsOf :
        /\ Raw(i, "Licencee Company")
             = <<"L", "i", "m", "i", "t", "e", "d", " ", "L", "i", "m", "i", "t", "e", "d">>
        /\ rowsOf[i].LicenseeCompany
             = <<"L", "t", "d", " ", "L", "i", "m", "i", "t", "e", "d">>

\* C17: normalizing a normalized NGR changes nothing: the NGR a Record
\* of the earliest revision holds is its own normal form
C17_NormalizationIdempotent ==
  (status = "loaded" /\ rev = "wtr1") =>
     \A i \in DOMAIN rowsOf : JoinFields(rowsOf[i].NGR) = rowsOf[i].NGR

\* C17: "AB 12345 67890" was loaded and is held as "AB1234567890"
C17_Witness ==
  /\ status = "loaded"
  /\ rev = "wtr1"
  /\ \E i \in DOMAIN rowsOf :
        /\ Raw(i, "NGR") = <<"A", "B", " ", "1", "2", "3", "4", "5", " ",
                             "6", "7", "8", "9", "0">>
        /\ rowsOf[i].NGR = <<"A", "B", "1", "2", "3", "4", "5",
                             "6", "7", "8", "9", "0">>
        /\ JoinFields(rowsOf[i].NGR) = rowsOf[i].NGR

\* C18: GetCompanies returns the LicenseeCompany values of the rows, each
\* once, in strictly ascending order, nothing for no rows, and changes no
\* Collection
C18_CompaniesDistinctSorted ==
  last.op = "GetCompanies" =>
     /\ Range(last.ret)
          = {rowsOf[Receiver.Rows[i]].LicenseeCompany : i \in DOMAIN Receiver.Rows}
     /\ \A i \in 1..(Len(last.ret) - 1) : Less(last.ret[i], last.ret[i + 1])
     /\ Receiver.Rows = << >> => last.ret = << >>
     /\ Views = last.pre

\* C18: GetCompanies on rows that name a company twice
C18_Witness ==
  /\ last.op = "GetCompanies"
  /\ last.ret # << >>
  /\ Len(last.ret) < Len(Receiver.Rows)

\* C18: GetCompanies on rows whose companies are not in ascending order
C18_SortedWitness ==
  /\ last.op = "GetCompanies"
  /\ Len(last.ret) = 2
  /\ Less(rowsOf[Receiver.Rows[2]].LicenseeCompany,
          rowsOf[Receiver.Rows[1]].LicenseeCompany)

\* the general predicates that together stand for FilterPointToPoint
Composition ==
  IF rev = "wtr1" THEN <<FilterProductCodes(<<P2PCode>>)>>
  ELSE <<FilterNumericalProductCodes(<<P2PCode>>), ValidNGRFn>>

\* C19: FilterPointToPoint accepts a row exactly when the general
\* predicates for "301010" (and, after the earliest revision, for a valid
\* NGR) all accept it, and Filter with it keeps the rows they keep
C19_PointToPointIsComposition ==
  status = "loaded" =>
     /\ \A i \in DOMAIN rowsOf :
          Call(PointToPointFn, i) <=> \A k \in DOMAIN Composition : Call(Composition[k], i)
     /\ (last.op = "Filter" /\ last.funcs = <<PointToPointFn>>) =>
          Result.Rows = FilterLoop(rev, Receiver.Rows, Composition, 1, << >>)

\* C19: the current revision's FilterPointToPoint kept a row and rejected
\* one that has the code "301010" and no valid NGR
C19_Witness ==
  /\ last.op = "Filter"
  /\ last.funcs = <<PointToPointFn>>
  /\ rev = "wtrcsv"
  /\ Result.Rows # << >>
  /\ \E i \in DOMAIN Receiver.Rows :
        /\ Receiver.Rows[i] \notin Range(Result.Rows)
        /\ rowsOf[Receiver.Rows[i]].ProductDescription31 = P2PCode

\* s without one space at its front, if it has one
DropSpace(s) == IF s # << >> /\ s[1] = " " THEN Tail(s) ELSE s

\* is t two capital letters, five digits and five digits, with at most one
\* space before each group of digits
GridReference(t) ==
  LET easting == DropSpace(SubSeq(t, 3, Len(t)))
      northing == DropSpace(SubSeq(easting, 6, Len(easting)))
  IN /\ Len(t) >= 12
     /\ t[1] \in UpperLetters /\ t[2] \in UpperLetters
     /\ \A j \in 1..5 : easting[j] \in Digits
     /\ Len(northing) = 5
     /\ \A j \in 1..5 : northing[j] \in Digits

\* does s end with a grid reference
EndsWithGridReference(s) ==
  \E n \in 12..14 : n <= Len(s) /\ GridReference(SubSeq(s, Len(s) - n + 1, Len(s)))

\* C20: FilterValidNGR accepts a row exactly when its NGR ends with a grid
\* reference: not the empty NGR, whatever stands before the two letters
C20_ValidNGR ==
  (status = "loaded" /\ rev # "wtr1") =>
     /\ \A i \in DOMAIN rowsOf :
          FilterValidNGR(rowsOf[i]) <=> EndsWithGridReference(rowsOf[i].NGR)
     /\ (last.op = "Filter" /\ last.funcs = <<ValidNGRFn>>) =>
          Result.Rows = SelectSeq(Receiver.Rows,
                                  LAMBDA p : EndsWithGridReference(rowsOf[p].NGR))

\* C20: Filter with FilterValidNGR rejected the row with the empty NGR and
\* kept one whose NGR has a character before the two letters
C20_Witness ==
  /\ last.op = "Filter"
  /\ last.funcs = <<ValidNGRFn>>
  /\ \E i \in DOMAIN Receiver.Rows :
        /\ rowsOf[Receiver.Rows[i]].NGR = << >>
        /\ Receiver.Rows[i] \notin Range(Result.Rows)
  /\ \E i \in DOMAIN Result.Rows : rowsOf[Result.Rows[i]].NGR[1] = "x"

\* the number of rows Filter(FilterCompanies(names...)) returns for rows
CompanyCount(rows, names) ==
  Len(FilterLoop(rev, rows, <<FilterCompanies(names)>>, 1, << >>))

\* C21: FilterCompanies(names...) accepts a row exactly when its
\* LicenseeCompany is one of the names, and the row count of
\* Filter(FilterCompanies(a, b)) is the sum of the row counts of
\* Filter(FilterCompanies(a)) and Filter(FilterCompanies(b))
C21_CompanyCountsAdd ==
  (/\ last.op = "Filter"
   /\ last.funcs = <<FilterCompanies(<<CompanyA, CompanyB>>)>>) =>
     /\ \A k \in DOMAIN Receiver.Rows :
           Call(last.funcs[1], Receiver.Rows[k])
              <=> rowsOf[Receiver.Rows[k]].LicenseeCompany
                     \in {CompanyA, CompanyB}
     /\ Len(Result.Rows) = CompanyCount(Receiver.Rows, <<CompanyA>>)
                             + CompanyCount(Receiver.Rows, <<CompanyB>>)

\* C21 in the second and the current revision, whose Filter goes on to
\* the next row after a rejected one
C21_CompanyCountsAddInLaterRevisions ==
  rev # "wtr1" => C21_CompanyCountsAdd

\* a row of another spelling is rejected while both names are found
C21_Witness ==
  /\ rev # "wtr1"
  /\ last.op = "Filter"
  /\ last.funcs = <<FilterCompanies(<<CompanyA, CompanyB>>)>>
  /\ Len(Receiver.Rows) = 2
  /\ Len(Result.Rows) = 1
  /\ rowsOf[Result.Rows[1]].LicenseeCompany = CompanyB

\* is rows a subsequence of the loaded row sequence: the load puts the
\* Records 1..n into the loaded Collection in this order, so a
\* subsequence is a strictly increasing sequence of them
SubsequenceOfLoad(rows) ==
  /\ Len(rows) <= Len(input.records)
  /\ \A k \in DOMAIN rows :
        /\ rows[k] \in 1..Len(input.records)
        /\ \A j \in 1..(k - 1) : rows[j] < rows[k]

\* every Collection is the loaded one or comes from a Filter call
OnlyFiltered ==
  \A c \in DOMAIN origin : origin[c].how \in {"ReadCSV", "Filter"}

\* C22: after any Filter and FilterInPlace calls on the loaded Collection
\* and the Collections derived from it, every Collection's Rows are a
\* subsequence of the loaded row sequence
C22_RowsSubsequenceOfLoad ==
  (status = "loaded" /\ OnlyFiltered) =>
     \A c \in DOMAIN colls : SubsequenceOfLoad(View(c).Rows)

\* a Collection filtered in place to fewer rows and a Collection derived
\* from it
C22_Witness ==
  /\ status = "loaded"
  /\ OnlyFiltered
  /\ Len(colls) = 2
  /\ last.op = "FilterInPlace"
  /\ last.recv = 1
  /\ Len(input.records) = 2
  /\ View(1).Rows = <<2>>
  /\ View(2).Rows = <<1, 2>>

\* the positions of rows that some function of filterFuncs rejects
Rejected(rows, filterFuncs) ==
  {k \in DOMAIN rows : \E f \in DOMAIN filterFuncs : ~Call(filterFuncs[f], rows[k])}

\* the longest prefix of rows in which every row passes every function
LongestPassingPrefix(rows, filterFuncs) ==
  LET bad == Rejected(rows, filterFuncs)
  IN IF bad = {} THEN rows
     ELSE SubSeq(rows, 1, (CHOOSE k \in bad : \A j \in bad : k <= j) - 1)

C24_InPlaceWitness ==
  /\ rev = "wtr1"
  /\ last.op = "FilterInPlace"
  /\ Len(Receiver.Rows) = 2
  /\ Rejected(Receiver.Rows, last.funcs) = {1}
  /\ Result.Rows = << >>

\* the extension field of a Row that belongs to a label
ExtensionField(row, label) ==
  CASE label = HeadingOsEasting(rev) -> row.OsEasting
    [] label = HeadingOsNorthing(rev) -> row.OsNorthing
    [] label = HeadingWgs84Longitude(rev) -> row.Wgs84Longitude
    [] label = HeadingWgs84Latitude(rev) -> row.Wgs84Latitude

\* the number a string of the label's kind stands for
Converted(label, s) ==
  IF label \in {HeadingOsEasting(rev), HeadingOsNorthing(rev)}
  THEN Atoi(s).val
  ELSE ParseFloat(s).val

\* the value an extension field has when nothing was parsed into it
ZeroOf(label) ==
  IF label \in {HeadingOsEasting(rev), HeadingOsNorthing(rev)} THEN 0 ELSE FloatZero

\* C27: for every row of one load the keys of the row's column map are the
\* header labels, so an extension field is parsed for all rows when its
\* label is in the header and for no row when it is not
C27_ExtensionPresenceIsPerLoad ==
  (status = "loaded" /\ last.op = "ReadCSV") =>
     \A i \in DOMAIN rowsOf :
        /\ DOMAIN CSVToMap(input).rows[i] = Range(input.header)
        /\ \A label \in ExtensionLabels(rev) :
              ExtensionField(rowsOf[i], label) =
                 IF label \in Range(input.header)
                 THEN Converted(label, Raw(i, label))
                 ELSE ZeroOf(label)

\* two rows of one load with the extension labels, one of them all zero
C27_Witness ==
  /\ status = "loaded"
  /\ ExtensionLabels(rev) \subseteq Range(input.header)
  /\ Len(rowsOf) = 2
  /\ rowsOf[1].OsEasting = 7
  /\ rowsOf[2].OsEasting = 0
  /\ \A label \in ExtensionLabels(rev) :
        ExtensionField(rowsOf[2], label) = ZeroOf(label)

\* the last column of the loaded header that carries the label
LastColumn(label) ==
  CHOOSE k \in DOMAIN input.header :
    /\ input.header[k] = label
    /\ \A j \in DOMAIN input.header : input.header[j] = label => j <= k

\* C28: when a label stands in two or more columns of the loaded header,
\* each Record keeps the value of the last such column, and WriteCSV
\* writes that value under every column with the label
C28_LastDuplicateColumnWins ==
  \A j \in DOMAIN input.header :
     (/\ status = "loaded"
      /\ input.header[j] = "Licence Number"
      /\ LastColumn("Licence Number") # j) =>
        /\ \A i \in DOMAIN rowsOf :
              rowsOf[i].LicenceNumber
                 = input.records[i][LastColumn("Licence Number")]
        /\ last.op = "WriteCSV" =>
              \A i \in DOMAIN Receiver.Rows :
                 LET p == Receiver.Rows[i]
                 IN /\ out[i + 1][j] = input.records[p][LastColumn("Licence Number")]
                    /\ out[i + 1][LastColumn("Licence Number")] = out[i + 1][j]

\* a written row whose first "Licence Number" column had another value
\* than the last one: the value "1" is lost
C28_Witness ==
  /\ status = "loaded"
  /\ last.op = "WriteCSV"
  /\ input.header = <<"Licence Number", "Licencee Company", "Licence Number">>
  /\ Len(out) = 2
  /\ input.records[Receiver.Rows[1]] = <<<<"1">>, <<"B">>, <<"2">>>>
  /\ out[2] = <<<<"2">>, <<"B">>, <<"2">>>>

\* the table a csv reader delivers for the records WriteCSV wrote
Written == [header |-> out[1], records |-> Tail(out)]

\* does loading the written table end the process
ReloadFails ==
  \/ ReadFails(Written)
  \/ \E i \in DOMAIN Written.records :
        ConversionFails(rev, CSVToMap(Written).rows[i])

\* the Records that loading the written table creates
Reloaded ==
  [i \in DOMAIN Written.records |-> newRow(rev, CSVToMap(Written).rows[i])]

\* the last call wrote the loaded Collection as the load made it, and its
\* header has distinct labels that are all labels of Record fields
WroteTheLoad ==
  /\ last.op = "WriteCSV"
  /\ last.recv = 1
  /\ Receiver.Header = input.header
  /\ Len(Receiver.Rows) = Len(input.records)
  /\ Range(input.header) \subseteq CoreLabels \cup ExtensionLabels(rev)
  /\ Cardinality(Range(input.header)) = Len(input.header)

LoadedAgain(row) == newRow(rev, toMap(rev, row))

\* do two Records agree in the four fields the load normalizes
SameNormalized(a, b) ==
  /\ a.LicenseeCompany = b.LicenseeCompany
  /\ a.ProductCode = b.ProductCode
  /\ a.ProductDescription = b.ProductDescription
  /\ a.NGR = b.NGR

\* C30 as stated: in the earliest revision, loading the values a loaded
\* Record renders gives the same LicenseeCompany, ProductCode,
\* ProductDescription and NGR, whatever the company name
C30_NormalizationsJointlyIdempotent ==
  (rev = "wtr1" /\ status = "loaded" /\ last.op = "ReadCSV") =>
     \A i \in DOMAIN rowsOf : SameNormalized(LoadedAgain(rowsOf[i]), rowsOf[i])

\* does the name still contain one of the texts newLicenceRow replaces
StillAbbreviable(name) ==
  \E k \in DOMAIN pairs : Contains(name, pairs[k].old)

\* C30: in the earliest revision, loading the values a loaded Record
\* renders gives the same ProductCode and NGR; the same LicenseeCompany
\* unless the stored name still contains a text that is replaced, as a name
\* with "Limited" twice does after its one replacement; and the same
\* ProductDescription unless the stored one has white space at an end
C30_IdempotentAfterFullAbbreviation ==
  (rev = "wtr1" /\ status = "loaded" /\ last.op = "ReadCSV") =>
     \A i \in DOMAIN rowsOf :
        LET row == rowsOf[i]
            again == LoadedAgain(row)
        IN /\ ~ConversionFails(rev, toMap(rev, row))
           /\ again.ProductCode = row.ProductCode
           /\ again.NGR = row.NGR
           /\ (again.LicenseeCompany = row.LicenseeCompany)
                 <=> ~StillAbbreviable(row.LicenseeCompany)
           /\ (again.ProductDescription = row.ProductDescription)
                 <=> TrimSpace(row.ProductDescription) = row.ProductDescription

\* a load of the earliest revision that split a product code, shortened a
\* company name once and took the white space out of a grid reference,
\* and whose rendered values load to the same Record
C30_Witness ==
  /\ rev = "wtr1"
  /\ status = "loaded"
  /\ \E i \in DOMAIN rowsOf :
        /\ Raw(i, "Licencee Company") = <<"A", " ", "L", "i", "m", "i", "t", "e", "d">>
        /\ rowsOf[i].LicenseeCompany = <<"A", " ", "L", "t", "d">>
        /\ rowsOf[i].ProductCode # Raw(i, "Product Code")
        /\ SameNormalized(LoadedAgain(rowsOf[i]), rowsOf[i])
  /\ \E i \in DOMAIN rowsOf :
        /\ rowsOf[i].NGR # Raw(i, "NGR")
        /\ StillAbbreviable(rowsOf[i].LicenseeCompany)
        /\ LoadedAgain(rowsOf[i]).LicenseeCompany # rowsOf[i].LicenseeCompany

\* what the call of goroutine g returns when it runs alone on the loaded
\* Collection
Alone(g) ==
  Returned(rev, [running[g] EXCEPT !.header = input.header, !.seen = Loaded])

\* C23: Filter, GetCompanies and WriteCSV calls that run at the same time
\* on one Collection, interleaved read by read, never write its Header or
\* its Rows, and each returns what it returns when it runs alone
C23_ConcurrentReadersDoNotInterfere ==
  (/\ status = "loaded"
   /\ \A g \in DOMAIN running : running[g].op # "FilterInPlace") =>
     /\ colls = <<[Header |-> input.header,
                   Rows |-> [arr |-> 1, len |-> Len(Loaded)]]>>
     /\ arrays = <<Loaded>>
     /\ \A g \in DOMAIN running :
           running[g].pc = "done" => running[g].ret = Alone(g)

\* a WriteCSV that started after a Filter and has returned both rows while
\* the Filter is in the middle of its loop
C23_Witness ==
  /\ status = "loaded"
  /\ Len(Loaded) = 2
  /\ running[1].op = "Filter"
  /\ running[1].pc = "loop"
  /\ Len(running[1].seen) = 1
  /\ running[2].op = "WriteCSV"
  /\ running[2].pc = "done"
  /\ Len(running[2].ret) = 3

\* the rows of the loaded Collection that FilterInPlace(filterFuncs...) keeps
Survivors(filterFuncs) == Passing(Loaded, filterFuncs)

\* FilterInPlace(filterFuncs...) drops a row that stands before a row it keeps
DropsBeforeSurvivor(filterFuncs) ==
  \E j, k \in DOMAIN Loaded :
     /\ j < k
     /\ ~AllPass(filterFuncs, Loaded[j], 1)
     /\ AllPass(filterFuncs, Loaded[k], 1)

\* rows is neither the row sequence before the FilterInPlace nor the one
\* after it
Torn(rows, filterFuncs) == rows \notin {Loaded, Survivors(filterFuncs)}

\* C25: a FilterInPlace that drops a row before a surviving row leaves, under
\* the length the Collection had before, a row sequence that is neither the
\* one before nor the one after the call, and a reader that runs at the
\* same time can observe such a sequence; no reader observes one otherwise
C25_InPlaceFilterTearsConcurrentReads ==
  \A f \in DOMAIN running :
     running[f].op = "FilterInPlace" =>
        /\ (running[f].pc = "done" /\ DropsBeforeSurvivor(running[f].funcs)) =>
              Torn(Elems(arrays, [arr |-> 1, len |-> Len(Loaded)]), running[f].funcs)
        /\ \A g \in DOMAIN running :
              (/\ running[g].op \in Readers
               /\ running[g].pc = "done"
               /\ Torn(running[g].seen, running[f].funcs)) =>
                 DropsBeforeSurvivor(running[f].funcs)

\* a GetCompanies that ran at the same time as a FilterInPlace which drops
\* the first row and keeps the second, and saw the surviving row twice
C25_Witness ==
  /\ Len(Loaded) = 2
  /\ running[1].op = "GetCompanies"
  /\ running[1].pc = "done"
  /\ running[2].op = "FilterInPlace"
  /\ DropsBeforeSurvivor(running[2].funcs)
  /\ running[1].seen = <<2, 2>>
  /\ Torn(running[1].seen, running[2].funcs)
  /\ rowsOf[1].LicenseeCompany # rowsOf[2].LicenseeCompany
  /\ Len(running[1].ret) = 1

\* C26: while FilterInPlace runs, it has written no more rows than it has
\* read, no element it has not read yet has been overwritten, and every
\* row it read, so every row it keeps, is the loaded row of that position
C26_InPlaceWritesBehindReads ==
  \A f \in DOMAIN running :
     (running[f].op = "FilterInPlace" /\ running[f].pc # "range") =>
        LET read == Len(running[f].seen)
            written == running[f].filteredRows
        IN /\ written <= read
           /\ running[f].pc = "append" => written < read
           /\ \A j \in (read + 1)..Len(Loaded) : arrays[1][j] = Loaded[j]
           /\ running[f].seen = SubSeq(Loaded, 1, read)
           /\ SubSeq(arrays[1], 1, written)
                = Passing(SubSeq(Loaded, 1, IF running[f].pc = "append"
                                            THEN read - 1 ELSE read),
                          running[f].funcs)

\* FilterInPlace has read both rows and is about to write the second row
\* over the first, which it dropped
C26_Witness ==
  /\ Len(Loaded) = 2
  /\ \E f \in DOMAIN running :
        /\ running[f].op = "FilterInPlace"
        /\ running[f].pc = "append"
        /\ running[f].seen = <<1, 2>>
        /\ running[f].filteredRows = 0
        /\ running[f].row = 2
        /\ arrays[1] = <<1, 2>>

====
